---- MODULE Spec2Model ----
(***************************************************************************)
(* CodeRabbit MCP server (src/src/MCPServer.ts): the tool and resource     *)
(* catalog, the call-tool / read-resource routing, the six tool handlers,  *)
(* and the request/response envelope around them.                          *)
(*                                                                         *)
(* Texts built by template literals are sequences of string pieces, one    *)
(* piece per literal fragment or interpolated value.                       *)
(***************************************************************************)
EXTENDS Integers, Sequences, FiniteSets, TLC

\* Number of input lines the client sends in one run.
MaxLines == 2

VARIABLES
    apiKey,      \* config.apiKey, read from CODERABBIT_API_KEY at start-up
    baseUrlEnv,  \* the environment's CODERABBIT_BASE_URL, "" when unset
    loop,        \* transport loop: "running", "closed" (stream end), "crashed"
    received,    \* the decoded input lines, in arrival order; index = request id
    phase,       \* per line: "awaiting" (handler suspended on the network) or "done"
    thread,      \* id of the request holding the JavaScript thread, 0 when idle
    invoked,     \* handler functions entered: set of [id, handler, at (clock read)]
    raised,      \* ids of the calls whose handler function threw
    upstream,    \* network requests issued, in order
    responses    \* responses written, in emission order

vars == <<apiKey, baseUrlEnv, loop, received, phase, thread, invoked, raised, upstream, responses>>

-----------------------------------------------------------------------------
(* JavaScript values of the argument object *)

Undefined == [t |-> "undefined", v |-> "undefined"]
Str(s) == [t |-> "string", v |-> s]
Num(s) == [t |-> "number", v |-> s]
Obj(o) == [t |-> "object", v |-> o]
Arr(a) == [t |-> "array", v |-> a]

EmptyObject == [k \in {} |-> Undefined]

\* args.field: undefined when the key is absent
Get(args, field) == IF field \in DOMAIN args THEN args[field] ELSE Undefined

\* JavaScript truthiness of a value
Truthy(x) == x.t # "undefined" /\ ~(x.t = "string" /\ x.v = "")

-----------------------------------------------------------------------------
(* Start-up configuration *)

ConfigBaseUrl == "https://api.coderabbit.ai/api/v1"
ApiKeys == {"", "test-key-for-demo"}

\* Values of CODERABBIT_BASE_URL in the environment of the process
BaseUrlEnvs == {"", "https://coderabbit.internal/api/v1"}

-----------------------------------------------------------------------------
(* The tool catalog returned by tools/list *)

ToolCatalog ==
    << [name |-> "generate_report",
        properties |-> [from |-> "string", to |-> "string"],
        required |-> <<"from", "to">>],
       [name |-> "analyze_pull_request",
        properties |-> [repository |-> "string", pullRequestNumber |-> "number",
                        reviewInstructions |-> "string"],
        required |-> <<"repository", "pullRequestNumber">>],
       [name |-> "configure_review_settings",
        properties |-> [repository |-> "string", configuration |-> "object"],
        required |-> <<"repository", "configuration">>],
       [name |-> "send_review_command",
        properties |-> [command |-> "string", context |-> "string",
                        targetFiles |-> "array"],
        required |-> <<"command">>],
       [name |-> "check_health",
        properties |-> [agentUrl |-> "string"],
        required |-> <<>>],
       [name |-> "create_custom_report",
        properties |-> [template |-> "string", dateRange |-> "object",
                        filters |-> "object"],
        required |-> <<"template", "dateRange">>] >>

\* The enum the send_review_command schema declares for its command field
\* Mutant of CommandEnum: the schema declares a sixth command
CommandEnumSix ==
    <<"generate docstrings", "explain reasoning", "remember rule",
      "provide context", "clarify suggestion", "optimize performance">>

CommandEnum ==
    <<"generate docstrings", "explain reasoning", "remember rule",
      "provide context", "clarify suggestion">>

\* Mutant of ListTools: send_review_command loses its required list
ListToolsCommandOptional ==
    [tools |-> [i \in DOMAIN ToolCatalog |->
                  IF ToolCatalog[i].name = "send_review_command"
                  THEN [ToolCatalog[i] EXCEPT !.required = <<>>]
                  ELSE ToolCatalog[i]]]

ListTools == [tools |-> ToolCatalog]

-----------------------------------------------------------------------------
(* The resource catalog returned by resources/list *)

ResourceCatalog ==
    << [uri |-> "coderabbit://config/sample", mimeType |-> "application/yaml"],
       [uri |-> "coderabbit://commands/help", mimeType |-> "text/markdown"],
       [uri |-> "coderabbit://tools/astgrep", mimeType |-> "application/yaml"],
       [uri |-> "coderabbit://env/template", mimeType |-> "text/plain"] >>

\* Mutant of ListResources: the env template is not listed
ListResourcesShort == [resources |-> SubSeq(ResourceCatalog, 1, 3)]

ListResources == [resources |-> ResourceCatalog]

-----------------------------------------------------------------------------
(* What one run of a handler segment ends with: a returned content text, a  *)
(* thrown Error with its message, or a suspension on a network request.     *)

NoNet == [method |-> "none", url |-> <<>>, body |-> <<>>, timeout |-> 0]

Return(text) == [kind |-> "return", text |-> text, net |-> NoNet]
Throw(message) == [kind |-> "throw", text |-> message, net |-> NoNet]
Await(net) == [kind |-> "await", text |-> <<>>, net |-> net]

\* args.field where args itself may be undefined: a TypeError
TypeErrorReading(field) ==
    Throw(<<"Cannot read properties of undefined (reading '", field, "')">>)

-----------------------------------------------------------------------------
(* Nested configuration objects of configure_review_settings, by label *)

Configurations ==
    [cfgBoth |->
        [pathInstructions |->
            << [path |-> "src/**", instructions |-> <<"be strict", "check types">>],
               [path |-> "docs/**", instructions |-> <<"check spelling">>] >>,
         tools |-> [astGrep |-> [essentialRules |-> TRUE,
                                 ruleDirs |-> <<"rules">>]]],
     cfgToolsOnly |->
        [tools |-> [astGrep |-> [essentialRules |-> FALSE,
                                 packages |-> <<"pkg">>]]]]

\* One "- ..." list item per element
YamlItems(items) == [i \in 1..Len(items) |-> <<"        - \"", items[i], "\"\n">>]

RECURSIVE Flatten(_)
Flatten(seqs) == IF seqs = <<>> THEN <<>> ELSE Head(seqs) \o Flatten(Tail(seqs))

\* instructions.replace(/\n/g, '\n        '): the text, given as its lines,
\* with every line break followed by the indentation of the block
RECURSIVE IndentLines(_)
IndentLines(lines) ==
    IF Len(lines) <= 1 THEN lines
    ELSE <<Head(lines), "\n        ">> \o IndentLines(Tail(lines))

YamlPathInstructions(list) ==
    Flatten([i \in 1..Len(list) |->
        <<"    - path: \"", list[i].path, "\"\n",
          "      instructions: |\n",
          "        ">> \o IndentLines(list[i].instructions) \o <<"\n">>])

YamlAstGrep(ast) ==
       <<"\n  tools:\n    ast-grep:\n">>
    \o (IF "essentialRules" \in DOMAIN ast /\ ast.essentialRules
        THEN <<"      essential_rules: true\n">> ELSE <<>>)
    \o (IF "ruleDirs" \in DOMAIN ast
        THEN <<"      rule_dirs:\n">> \o Flatten(YamlItems(ast.ruleDirs)) ELSE <<>>)
    \o (IF "utilDirs" \in DOMAIN ast
        THEN <<"      util_dirs:\n">> \o Flatten(YamlItems(ast.utilDirs)) ELSE <<>>)
    \o (IF "packages" \in DOMAIN ast
        THEN <<"      packages:\n">> \o Flatten(YamlItems(ast.packages)) ELSE <<>>)

generateCodeRabbitYaml(config) ==
       <<"# CodeRabbit Configuration\n\n">>
    \o (IF "pathInstructions" \in DOMAIN config
        THEN <<"reviews:\n  path_instructions:\n">>
             \o YamlPathInstructions(config.pathInstructions)
        ELSE <<>>)
    \o (IF "tools" \in DOMAIN config /\ "astGrep" \in DOMAIN config.tools
        THEN YamlAstGrep(config.tools.astGrep)
        ELSE <<>>)

-----------------------------------------------------------------------------
(* Tool implementations.  hasArgs is FALSE when the request carried no     *)
(* arguments member, so that args is undefined inside the handler.         *)

ReportRequest(args) ==
    [method |-> "POST",
     url |-> <<ConfigBaseUrl, "/report.generate">>,
     body |-> <<Get(args, "from").v, Get(args, "to").v>>,
     timeout |-> 0]

\* Mutant of generateReport: the request is sent without looking at the key
generateReportNoKeyCheck(hasArgs, args) ==
    IF ~hasArgs
    THEN TypeErrorReading("from")
    ELSE Await(ReportRequest(args))

\* Mutant of generateReport: a report already fetched for the same dates is reused
generateReportCached(hasArgs, args) ==
    IF apiKey = ""
    THEN Throw(<<"CodeRabbit API key not configured. Set CODERABBIT_API_KEY environment variable.">>)
    ELSE IF ~hasArgs
         THEN TypeErrorReading("from")
         ELSE IF \E k \in DOMAIN upstream :
                    /\ upstream[k].body = ReportRequest(args).body
                    /\ upstream[k].reply = "ok"
              THEN Return(<<"CodeRabbit Report Generated Successfully\n\n", "{report}">>)
              ELSE Await(ReportRequest(args))

generateReport(hasArgs, args) ==
    IF apiKey = ""
    THEN Throw(<<"CodeRabbit API key not configured. Set CODERABBIT_API_KEY environment variable.">>)
    ELSE IF ~hasArgs
         THEN TypeErrorReading("from")
         ELSE Await(ReportRequest(args))

\* The segment after the await of axios.post
generateReportResume(reply) ==
    IF reply.kind = "ok"
    THEN Return(<<"CodeRabbit Report Generated Successfully\n\n", reply.data>>)
    ELSE Throw(<<"API Error: ", reply.status, " - ",
                 IF reply.data # "" THEN reply.data ELSE reply.message>>)

\* Mutant of analyzePullRequest: members the schema does not declare are refused
analyzePullRequestStrict(hasArgs, args, now) ==
    IF ~hasArgs
    THEN TypeErrorReading("repository")
    ELSE IF DOMAIN args \subseteq {"repository", "pullRequestNumber"}
         THEN Return(<<"Pull Request Analysis Complete\n\n",
                       "repository: ", Get(args, "repository").v,
                       "pullRequest: ", Get(args, "pullRequestNumber").v,
                       "timestamp: ", now,
                       "suggestions: code_quality, documentation",
                       "metrics: 150, 25, 8, 6.2">>)
         ELSE Throw(<<"Unrecognized argument">>)

analyzePullRequest(hasArgs, args, now) ==
    IF ~hasArgs
    THEN TypeErrorReading("repository")
    ELSE Return(<<"Pull Request Analysis Complete\n\n",
                  "repository: ", Get(args, "repository").v,
                  "pullRequest: ", Get(args, "pullRequestNumber").v,
                  "timestamp: ", now,
                  "suggestions: code_quality, documentation",
                  "metrics: 150, 25, 8, 6.2">>)

\* The configuration object a value denotes; a primitive has no properties.
ConfigObject(x) ==
    IF x.t = "object" /\ x.v \in DOMAIN Configurations
    THEN Configurations[x.v]
    ELSE EmptyObject

\* [fence] stands for the Markdown code fence of three backquotes.
configureReviewSettings(hasArgs, args) ==
    IF ~hasArgs
    THEN TypeErrorReading("configuration")
    ELSE IF Get(args, "configuration").t = "undefined"
         THEN TypeErrorReading("pathInstructions")
         ELSE Return(<<"CodeRabbit Configuration Generated for ",
                       Get(args, "repository").v, "\n\n[fence]yaml\n">>
                     \o generateCodeRabbitYaml(ConfigObject(Get(args, "configuration")))
                     \o <<"\n[fence]">>)

CommandKeys ==
    {"generate docstrings", "explain reasoning", "remember rule",
     "provide context", "clarify suggestion"}

\* Mutant of commandMapping: the docstrings directive carries the context
commandMappingDocstringsContext(key, context) ==
    CASE key = "generate docstrings" ->
            IF Truthy(context)
            THEN <<"@coderabbitai generate docstrings ", context.v>>
            ELSE <<"@coderabbitai generate docstrings">>
      [] key = "explain reasoning" ->
            <<"@coderabbitai Why do all of these functions need docstrings? Isn't it obvious enough what they do?">>
      [] key = "remember rule" ->
            <<"@coderabbitai always remember ",
              IF Truthy(context) THEN context.v ELSE "to follow best practices">>
      [] key = "provide context" ->
            <<"@coderabbitai ",
              IF Truthy(context) THEN context.v
              ELSE "do not complain about lack of error handling here, it is handled higher up the execution stack.">>
      [] key = "clarify suggestion" -> <<"@coderabbitai Please clarify this suggestion">>

\* Mutant of commandMapping: the templates are filled with their defaults only
commandMappingDefaultsOnly(key, context) ==
    CASE key = "generate docstrings" -> <<"@coderabbitai generate docstrings">>
      [] key = "explain reasoning" ->
            <<"@coderabbitai Why do all of these functions need docstrings? Isn't it obvious enough what they do?">>
      [] key = "remember rule" ->
            <<"@coderabbitai always remember ", "to follow best practices">>
      [] key = "provide context" ->
            <<"@coderabbitai ",
              "do not complain about lack of error handling here, it is handled higher up the execution stack.">>
      [] key = "clarify suggestion" -> <<"@coderabbitai Please clarify this suggestion">>

\* commandMapping[key], built with the call's context
commandMapping(key, context) ==
    CASE key = "generate docstrings" -> <<"@coderabbitai generate docstrings">>
      [] key = "explain reasoning" ->
            <<"@coderabbitai Why do all of these functions need docstrings? Isn't it obvious enough what they do?">>
      [] key = "remember rule" ->
            <<"@coderabbitai always remember ",
              IF Truthy(context) THEN context.v ELSE "to follow best practices">>
      [] key = "provide context" ->
            <<"@coderabbitai ",
              IF Truthy(context) THEN context.v
              ELSE "do not complain about lack of error handling here, it is handled higher up the execution stack.">>
      [] key = "clarify suggestion" -> <<"@coderabbitai Please clarify this suggestion">>

\* Indexing the mapping by a string that is no key gives undefined
\* Properties that the mapping object inherits from Object.prototype, with
\* the name of the native function each one holds
InheritedFunctions ==
    [constructor |-> "Object", toString |-> "toString", valueOf |-> "valueOf",
     hasOwnProperty |-> "hasOwnProperty"]

\* commandMapping[args.command] as the template literal renders it
Directive(command, context) ==
    IF command.t = "string" /\ command.v \in CommandKeys
    THEN commandMapping(command.v, context)
    ELSE IF command.t = "string" /\ command.v \in DOMAIN InheritedFunctions
         THEN <<"function ", InheritedFunctions[command.v], "() { [native code] }">>
         ELSE <<"undefined">>

sendReviewCommand(hasArgs, args) ==
    IF ~hasArgs
    THEN TypeErrorReading("context")
    ELSE LET files == Get(args, "targetFiles") IN
         IF Truthy(files) /\ files.t # "array"
         THEN Throw(<<"args.targetFiles.join is not a function">>)
         ELSE Return(<<"CodeRabbit Command: ">>
                     \o Directive(Get(args, "command"), Get(args, "context"))
                     \o <<"\n\nThis command can be posted as a comment in your pull request to interact with CodeRabbit.">>
                     \o (IF Truthy(files)
                         THEN <<"\n\nTarget files: ", files.v>>
                         ELSE <<>>))

DefaultAgentUrl == "http://127.0.0.1:8080"

\* args.agentUrl || 'http://127.0.0.1:8080'
AgentUrl(args) ==
    IF Truthy(Get(args, "agentUrl")) THEN Get(args, "agentUrl").v ELSE DefaultAgentUrl

HealthTimeout == 5000

HealthRequest(args) ==
    [method |-> "GET",
     url |-> <<AgentUrl(args), "/health">>,
     body |-> <<>>,
     timeout |-> HealthTimeout]

checkHealth(hasArgs, args) ==
    IF ~hasArgs
    THEN TypeErrorReading("agentUrl")
    ELSE Await(HealthRequest(args))

\* Mutant of checkHealthResume: a failed probe is rethrown
checkHealthResumeRethrow(args, reply) ==
    IF reply.kind = "ok"
    THEN Return(<<"CodeRabbit Agent Health Check\n\nStatus: ", "Healthy",
                  "\nURL: ", AgentUrl(args),
                  "\nResponse: ", reply.status, " ", reply.data>>)
    ELSE Throw(<<reply.message>>)

\* The segment after the await of axios.get
checkHealthResume(args, reply) ==
    IF reply.kind = "ok"
    THEN Return(<<"CodeRabbit Agent Health Check\n\nStatus: ", "Healthy",
                  "\nURL: ", AgentUrl(args),
                  "\nResponse: ", reply.status, " ", reply.data>>)
    ELSE Return(<<"CodeRabbit Agent Health Check\n\nStatus: ", "Unhealthy",
                  "\nURL: ", AgentUrl(args),
                  "\nError: ", reply.message>>)

\* Mutant of createCustomReport: a report is generated once per server run
createCustomReportOnce(hasArgs, args, now) ==
    IF ~hasArgs
    THEN TypeErrorReading("template")
    ELSE IF \E k \in DOMAIN received : received[k].name = "create_custom_report"
         THEN Throw(<<"Report already generated">>)
         ELSE Return(<<"Custom CodeRabbit Report\n\n",
                       "template: ", Get(args, "template").v,
                       "dateRange: ", Get(args, "dateRange").v,
                       "filters: ", IF Truthy(Get(args, "filters"))
                                    THEN Get(args, "filters").v ELSE "{}",
                       "generatedAt: ", now,
                       "summary: 42, 38, 4, 2.3 days, alice, bob, charlie">>)

createCustomReport(hasArgs, args, now) ==
    IF ~hasArgs
    THEN TypeErrorReading("template")
    ELSE Return(<<"Custom CodeRabbit Report\n\n",
                  "template: ", Get(args, "template").v,
                  "dateRange: ", Get(args, "dateRange").v,
                  "filters: ", IF Truthy(Get(args, "filters"))
                               THEN Get(args, "filters").v ELSE "{}",
                  "generatedAt: ", now,
                  "summary: 42, 38, 4, 2.3 days, alice, bob, charlie">>)

-----------------------------------------------------------------------------
(* Resource content generators: each returns one fixed template, named     *)
(* here by its first line.                                                 *)

getSampleConfiguration == "# .coderabbit.yaml - Sample Configuration"
getCommandsHelp == "# CodeRabbit Commands Reference"
getAstGrepExamples == "# AST-Grep Rules Examples"
getEnvTemplate == "# CodeRabbit Self-Hosted Environment Configuration"

Contents(uri, mimeType, text) ==
    Return(<<[uri |-> uri, mimeType |-> mimeType, text |-> text]>>)

\* Mutant of ReadResource: the default case returns an empty document
ReadResourceLenient(uri) ==
    CASE uri = "coderabbit://config/sample" ->
            Contents(uri, "application/yaml", getSampleConfiguration)
      [] uri = "coderabbit://commands/help" ->
            Contents(uri, "text/markdown", getCommandsHelp)
      [] uri = "coderabbit://tools/astgrep" ->
            Contents(uri, "application/yaml", getAstGrepExamples)
      [] uri = "coderabbit://env/template" ->
            Contents(uri, "text/plain", getEnvTemplate)
      [] OTHER -> Contents(uri, "text/plain", "")

\* Mutant of ReadResource: the astgrep case answers with another mimeType
ReadResourceWrongMime(uri) ==
    CASE uri = "coderabbit://config/sample" ->
            Contents(uri, "application/yaml", getSampleConfiguration)
      [] uri = "coderabbit://commands/help" ->
            Contents(uri, "text/markdown", getCommandsHelp)
      [] uri = "coderabbit://tools/astgrep" ->
            Contents(uri, "text/plain", getAstGrepExamples)
      [] uri = "coderabbit://env/template" ->
            Contents(uri, "text/plain", getEnvTemplate)
      [] OTHER -> Throw(<<"Unknown resource: ", uri>>)

\* Mutant of ReadResource: the templates embed how many lines were read so far
ReadResourceStamped(uri) ==
    LET stamp(text) == IF Len(received) = 0 THEN text ELSE "# generated after earlier requests"
    IN
    CASE uri = "coderabbit://config/sample" ->
            Contents(uri, "application/yaml", stamp(getSampleConfiguration))
      [] uri = "coderabbit://commands/help" ->
            Contents(uri, "text/markdown", stamp(getCommandsHelp))
      [] uri = "coderabbit://tools/astgrep" ->
            Contents(uri, "application/yaml", stamp(getAstGrepExamples))
      [] uri = "coderabbit://env/template" ->
            Contents(uri, "text/plain", stamp(getEnvTemplate))
      [] OTHER -> Throw(<<"Unknown resource: ", uri>>)

\* The resources/read handler: the switch over the uri
ReadResource(uri) ==
    CASE uri = "coderabbit://config/sample" ->
            Contents(uri, "application/yaml", getSampleConfiguration)
      [] uri = "coderabbit://commands/help" ->
            Contents(uri, "text/markdown", getCommandsHelp)
      [] uri = "coderabbit://tools/astgrep" ->
            Contents(uri, "application/yaml", getAstGrepExamples)
      [] uri = "coderabbit://env/template" ->
            Contents(uri, "text/plain", getEnvTemplate)
      [] OTHER -> Throw(<<"Unknown resource: ", uri>>)

-----------------------------------------------------------------------------
(* The tools/call handler *)

ToolNames ==
    {"generate_report", "analyze_pull_request", "configure_review_settings",
     "send_review_command", "check_health", "create_custom_report"}

\* Mutant of SwitchCase: the switch has no default, the last case catches all
SwitchCaseNoDefault(name) == IF name \in ToolNames THEN name ELSE "create_custom_report"

\* Mutant of SwitchCase: the switch has no case for check_health
SwitchCaseNoHealth(name) ==
    IF name \in ToolNames \ {"check_health"} THEN name ELSE "default"

\* The case of the switch that a name selects; "default" for any other name
SwitchCase(name) == IF name \in ToolNames THEN name ELSE "default"

\* The first segment of the selected case, up to its return, throw or await
CallToolSwitch(req, now) ==
    CASE SwitchCase(req.name) = "generate_report" ->
            generateReport(req.hasArgs, req.args)
      [] SwitchCase(req.name) = "analyze_pull_request" ->
            analyzePullRequest(req.hasArgs, req.args, now)
      [] SwitchCase(req.name) = "configure_review_settings" ->
            configureReviewSettings(req.hasArgs, req.args)
      [] SwitchCase(req.name) = "send_review_command" ->
            sendReviewCommand(req.hasArgs, req.args)
      [] SwitchCase(req.name) = "check_health" ->
            checkHealth(req.hasArgs, req.args)
      [] SwitchCase(req.name) = "create_custom_report" ->
            createCustomReport(req.hasArgs, req.args, now)
      [] OTHER -> Throw(<<"Unknown tool: ", req.name>>)

\* Mutant of CallToolResume: the continuation reads the request from a field
\* shared by all calls, which holds the latest request received
CallToolResumeShared(req, reply) ==
    IF received[Len(received)].name = "generate_report"
    THEN generateReportResume(reply)
    ELSE checkHealthResume(received[Len(received)].args, reply)

\* The segment of a suspended case that runs when its network request settles
CallToolResume(req, reply) ==
    IF req.name = "generate_report"
    THEN generateReportResume(reply)
    ELSE checkHealthResume(req.args, reply)

\* What the handler hands back for a returned handler result
ToolResult(outcome) ==
    [isError |-> FALSE, kind |-> "content", text |-> outcome.text, list |-> <<>>]

\* Mutant of CatchResult: the catch block forgets the isError flag
CatchResultUnflagged(name, outcome) ==
    [isError |-> FALSE, kind |-> "content",
     text |-> <<"Error executing ", name, ": ">> \o outcome.text,
     list |-> <<>>]

\* The catch block: the thrown message wrapped into an isError result
CatchResult(name, outcome) ==
    [isError |-> TRUE, kind |-> "content",
     text |-> <<"Error executing ", name, ": ">> \o outcome.text,
     list |-> <<>>]

\* try { switch ... } catch: the result of a finished call
CallToolResult(name, outcome) ==
    IF outcome.kind = "throw"
    THEN CatchResult(name, outcome)
    ELSE ToolResult(outcome)

-----------------------------------------------------------------------------
(* The requests a client sends *)

Request(method, name, hasArgs, args, uri) ==
    [method |-> method, name |-> name, hasArgs |-> hasArgs, args |-> args, uri |-> uri]

Call(name, args) == Request("tools/call", name, TRUE, args, "")

CallLines ==
    { Call("generate_report", [from |-> Str("2024-01-01"), to |-> Str("2024-01-31")]),
      Call("generate_report", [from |-> Str("2024-01-01")]),
      Call("generate_report",
           [from |-> Str("2024-01-01"), to |-> Str("2024-01-31"),
            analysisType |-> Str("pattern-recognition")]),
      Call("analyze_pull_request",
           [repository |-> Str("org/repo"), pullRequestNumber |-> Num("42")]),
      Call("analyze_pull_request",
           [repository |-> Str("org/repo"), pullRequestNumber |-> Str("42")]),
      Call("analyze_pull_request",
           [repository |-> Str("org/repo"), pullRequestNumber |-> Num("42"),
            extra |-> Str("x")]),
      Call("configure_review_settings",
           [repository |-> Str("org/repo"), configuration |-> Obj("cfgBoth")]),
      Call("configure_review_settings",
           [repository |-> Str("org/repo"), configuration |-> Obj("cfgToolsOnly")]),
      Call("send_review_command",
           [command |-> Str("generate docstrings"),
            context |-> Str("Focus on public API functions")]),
      Call("send_review_command",
           [command |-> Str("remember rule"), context |-> Str("enforce camelCase")]),
      Call("send_review_command", [command |-> Str("optimize performance")]),
      Call("send_review_command", EmptyObject),
      Call("check_health", [agentUrl |-> Str("http://10.0.0.1:9")]),
      Call("check_health", EmptyObject),
      Request("tools/call", "check_health", FALSE, EmptyObject, ""),
      Call("create_custom_report",
           [template |-> Str("weekly"), dateRange |-> Obj("{from,to}")]),
      Call("delete_everything", EmptyObject) }

ReadLines ==
    { Request("resources/read", "", FALSE, EmptyObject, uri) :
        uri \in {"coderabbit://config/sample", "coderabbit://commands/help",
                 "coderabbit://tools/astgrep", "coderabbit://env/template",
                 "coderabbit://secrets/key"} }

ListToolsLine == Request("tools/list", "", FALSE, EmptyObject, "")
ListResourcesLine == Request("resources/list", "", FALSE, EmptyObject, "")

\* A line that is not a JSON object
GarbageLine == Request("garbage", "", FALSE, EmptyObject, "")

\* Values of new Date().toISOString() at the time of a call
Times == {"2024-06-01T10:00:00.000Z", "2024-06-01T10:00:01.000Z"}

-----------------------------------------------------------------------------
(* What the network can answer to a request *)

ReportReplies ==
    { [kind |-> "ok", status |-> "200", data |-> "{report}", message |-> ""],
      [kind |-> "error", status |-> "401", data |-> "Unauthorized",
       message |-> "Request failed with status code 401"],
      [kind |-> "error", status |-> "undefined", data |-> "",
       message |-> "connect ECONNREFUSED"] }

HealthReplies ==
    { [kind |-> "ok", status |-> "200", data |-> "OK", message |-> ""],
      [kind |-> "error", status |-> "undefined", data |-> "",
       message |-> "connect ECONNREFUSED"] }

Replies(method) == IF method = "POST" THEN ReportReplies ELSE HealthReplies

\* axios gives up after the configured number of milliseconds
TimeoutReply ==
    [kind |-> "error", status |-> "undefined", data |-> "",
     message |-> "timeout of 5000ms exceeded"]

-----------------------------------------------------------------------------
(* Transport loop and response envelope *)

\* The response to request id carrying a handler's result
Envelope(id, result) ==
    [id |-> id, isError |-> result.isError, kind |-> result.kind,
     text |-> result.text, list |-> result.list]

\* A failure that reaches the router boundary: an error response
ProtocolError(id, message) ==
    [id |-> id, isError |-> TRUE, kind |-> "error", text |-> message, list |-> <<>>]

\* An undecodable line: reported with no id, the loop goes on
DecodeFailure == ProtocolError(0, <<"Malformed request">>)

LoopAfterFailure == "running"

\* Mutant of ThreadAfterAwait: the request is made with a blocking call
ThreadHeldAfterAwait(id) == id

\* await hands the thread back to the event loop
ThreadAfterAwait(id) == 0

NextId == Len(received) + 1

CanRead == loop = "running" /\ thread = 0 /\ Len(received) < MaxLines

Init ==
    /\ apiKey \in ApiKeys
    /\ baseUrlEnv \in BaseUrlEnvs
    /\ loop = "running"
    /\ received = <<>>
    /\ phase = <<>>
    /\ thread = 0
    /\ invoked = {}
    /\ raised = {}
    /\ upstream = <<>>
    /\ responses = <<>>

ReceiveGarbage ==
    /\ CanRead
    /\ received' = Append(received, GarbageLine)
    /\ phase' = Append(phase, "done")
    /\ responses' = Append(responses, DecodeFailure)
    /\ loop' = LoopAfterFailure
    /\ UNCHANGED <<apiKey, baseUrlEnv, thread, invoked, raised, upstream>>

ListToolsRequest ==
    /\ CanRead
    /\ received' = Append(received, ListToolsLine)
    /\ phase' = Append(phase, "done")
    /\ responses' = Append(responses,
          Envelope(NextId, [isError |-> FALSE, kind |-> "tools", text |-> <<>>,
                            list |-> ListTools.tools]))
    /\ UNCHANGED <<apiKey, baseUrlEnv, loop, thread, invoked, raised, upstream>>

ListResourcesRequest ==
    /\ CanRead
    /\ received' = Append(received, ListResourcesLine)
    /\ phase' = Append(phase, "done")
    /\ responses' = Append(responses,
          Envelope(NextId, [isError |-> FALSE, kind |-> "resources", text |-> <<>>,
                            list |-> ListResources.resources]))
    /\ UNCHANGED <<apiKey, baseUrlEnv, loop, thread, invoked, raised, upstream>>

ReadResourceRequest ==
    /\ CanRead
    /\ \E line \in ReadLines :
         LET outcome == ReadResource(line.uri) IN
         /\ received' = Append(received, line)
         /\ phase' = Append(phase, "done")
         /\ responses' = Append(responses,
               IF outcome.kind = "throw"
               THEN ProtocolError(NextId, outcome.text)
               ELSE Envelope(NextId, [isError |-> FALSE, kind |-> "contents",
                                      text |-> <<>>, list |-> outcome.text]))
    /\ UNCHANGED <<apiKey, baseUrlEnv, loop, thread, invoked, raised, upstream>>

\* The handlers that read the clock
ReadsClock(name) == name \in {"analyze_pull_request", "create_custom_report"}

\* One tools/call request, from its arrival to the first return, throw or await
HandleCall(line, now) ==
         LET outcome == CallToolSwitch(line, now)
             id == NextId
         IN
         /\ received' = Append(received, line)
         /\ invoked' = IF SwitchCase(line.name) = "default"
                       THEN invoked
                       ELSE invoked \cup
                              {[id |-> id, handler |-> SwitchCase(line.name),
                                at |-> IF ReadsClock(SwitchCase(line.name))
                                       THEN now ELSE ""]}
         /\ raised' = IF SwitchCase(line.name) # "default" /\ outcome.kind = "throw"
                      THEN raised \cup {id}
                      ELSE raised
         /\ IF outcome.kind = "await"
            THEN /\ phase' = Append(phase, "awaiting")
                 /\ upstream' = Append(upstream,
                       [by |-> id, method |-> outcome.net.method,
                        url |-> outcome.net.url, body |-> outcome.net.body,
                        timeout |-> outcome.net.timeout, reply |-> "none",
                        answer |-> <<>>])
                 /\ thread' = ThreadAfterAwait(id)
                 /\ UNCHANGED responses
            ELSE /\ phase' = Append(phase, "done")
                 /\ responses' = Append(responses,
                       Envelope(id, CallToolResult(line.name, outcome)))
                 /\ UNCHANGED <<upstream, thread>>
         /\ UNCHANGED <<apiKey, baseUrlEnv, loop>>

CallToolRequest ==
    /\ CanRead
    /\ \E line \in CallLines, now \in Times : HandleCall(line, now)

\* The send_review_command calls a client can make: every declared command
\* and one undeclared, with and without context and target files
CommandLines ==
    { Call("send_review_command", cmd @@ ctx @@ files) :
        cmd \in { [command |-> Str(c)] :
                    c \in {"generate docstrings", "explain reasoning", "remember rule",
                           "provide context", "clarify suggestion",
                           "optimize performance", "constructor"} },
        ctx \in { EmptyObject, [context |-> Str("")],
                  [context |-> Str("enforce camelCase")],
                  [context |-> Str("Focus on public API functions")] },
        files \in { EmptyObject, [targetFiles |-> Arr("src/a.ts, src/b.ts")] } }

CommandCallRequest ==
    /\ CanRead
    /\ \E line \in CommandLines, now \in Times : HandleCall(line, now)

\* The pending network request i settles with reply; its handler resumes
Settle(i, reply, how) ==
    LET id == upstream[i].by
        req == received[id]
    IN
    /\ phase[id] = "awaiting"
    /\ thread \in {0, id}
    /\ upstream' = [upstream EXCEPT ![i].reply = how,
                                    ![i].answer = <<reply.status, reply.data, reply.message>>]
    /\ phase' = [phase EXCEPT ![id] = "done"]
    /\ thread' = 0
    /\ raised' = IF CallToolResume(req, reply).kind = "throw"
                  THEN raised \cup {id}
                  ELSE raised
    /\ responses' = Append(responses,
          Envelope(id, CallToolResult(req.name, CallToolResume(req, reply))))
    /\ UNCHANGED <<apiKey, baseUrlEnv, loop, received, invoked>>

NetworkReply ==
    \E i \in 1..Len(upstream) :
        \E reply \in Replies(upstream[i].method) :
            Settle(i, reply, reply.kind)

NetworkTimeout ==
    \E i \in 1..Len(upstream) :
        /\ upstream[i].timeout > 0
        /\ Settle(i, TimeoutReply, "timeout")

\* The client closes the input stream
CloseStream ==
    /\ loop = "running"
    /\ loop' = "closed"
    /\ UNCHANGED <<apiKey, baseUrlEnv, received, phase, thread, invoked, raised, upstream, responses>>

Next ==
    \/ ReceiveGarbage
    \/ ListToolsRequest
    \/ ListResourcesRequest
    \/ ReadResourceRequest
    \/ CallToolRequest
    \/ NetworkReply
    \/ NetworkTimeout
    \/ CloseStream

Spec == Init /\ [][Next]_vars

\* The server under a client that only sends review commands
CommandSpec == Init /\ [][CommandCallRequest]_vars

\* A timer that axios has armed fires if the request stays unsettled; the
\* remote endpoint is under no obligation to answer.
FairSpec == Spec /\ WF_vars(NetworkTimeout)

-----------------------------------------------------------------------------
(* Vocabulary of the properties *)

Ids == DOMAIN received

IsCall(id) == received[id].method = "tools/call"

\* Positions in the output of the responses that carry id
ResponsesTo(id) == {i \in DOMAIN responses : responses[i].id = id}

HandlerEntered(id) == \E e \in invoked : e.id = id

\* The names tools/list announces
RegisteredNames == {ToolCatalog[i].name : i \in DOMAIN ToolCatalog}

SchemaOf(name) == CHOOSE t \in {ToolCatalog[i] : i \in DOMAIN ToolCatalog} : t.name = name

\* A required field is absent, or a present declared field has another type
ViolatesSchema(req) ==
    /\ req.name \in RegisteredNames
    /\ LET schema == SchemaOf(req.name) IN
       \/ \E k \in DOMAIN schema.required : schema.required[k] \notin DOMAIN req.args
       \/ \E f \in DOMAIN req.args \cap DOMAIN schema.properties :
              req.args[f].t # schema.properties[f]

\* C1: every call whose arguments violate the tool's declared inputSchema is
\* answered with an error response and its handler function is never entered.
C1_InvalidArgumentsRejected ==
    \A id \in Ids :
        (IsCall(id) /\ ViolatesSchema(received[id]))
            => /\ ~HandlerEntered(id)
               /\ \A i \in ResponsesTo(id) : responses[i].isError

\* C2: a generate_report call without the field "to" issues no upstream
\* request, also when an API credential is configured.
C2_MissingToNoUpstream ==
    \A i \in DOMAIN upstream :
        received[upstream[i].by].name = "generate_report"
            => "to" \in DOMAIN received[upstream[i].by].args

UnknownToolCall(id) == IsCall(id) /\ received[id].name \notin RegisteredNames

\* C3: a call naming no registered tool is answered by an error response that
\* reports the unknown tool, and no tool handler function is entered for it.
C3_UnknownToolRejected ==
    \A id \in Ids :
        UnknownToolCall(id)
            => /\ ~HandlerEntered(id)
               /\ phase[id] = "done"
               /\ ResponsesTo(id) # {}
               /\ \A i \in ResponsesTo(id) :
                     /\ responses[i].isError
                     /\ responses[i].text =
                           <<"Error executing ", received[id].name, ": ",
                             "Unknown tool: ", received[id].name>>

\* C3 witness: an unregistered name was called and answered, upstream untouched
C3_Witness ==
    \E id \in Ids :
        /\ UnknownToolCall(id)
        /\ received[id].name = "delete_everything"
        /\ \E i \in ResponsesTo(id) : responses[i].isError

\* The first piece of each handler's returned text
SuccessHeads ==
    {"CodeRabbit Report Generated Successfully\n\n",
     "Pull Request Analysis Complete\n\n",
     "CodeRabbit Configuration Generated for ",
     "CodeRabbit Command: ",
     "CodeRabbit Agent Health Check\n\nStatus: ",
     "Custom CodeRabbit Report\n\n"}

\* An error: the flag and a message, no result list
ErrorShaped(r) ==
    /\ r.isError
    /\ r.list = <<>>
    /\ r.text # <<>>
    /\ \/ r.kind = "error"
       \/ r.kind = "content" /\ r.text[1] = "Error executing "

\* A success: no flag, and a result list or a handler's text
SuccessShaped(r) ==
    /\ ~r.isError
    /\ \/ r.kind \in {"tools", "resources", "contents"} /\ r.list # <<>> /\ r.text = <<>>
       \/ r.kind = "content" /\ r.list = <<>> /\ r.text # <<>>
          /\ r.text[1] \in SuccessHeads

\* C4: every response written is either a success carrying a result payload
\* or an error carrying the flag and a message, never a mixture of the two.
C4_OneVariantPerResponse ==
    \A i \in DOMAIN responses :
        ErrorShaped(responses[i]) \/ SuccessShaped(responses[i])

\* C4 witness: a caught handler exception and a successful result in one run
C4_Witness ==
    /\ \E i \in DOMAIN responses :
          responses[i].kind = "content" /\ ErrorShaped(responses[i])
          /\ responses[i].id \in raised
    /\ \E i \in DOMAIN responses :
          responses[i].kind = "content" /\ SuccessShaped(responses[i])

\* The head a successful result of the named tool starts with
HeadOf(name) ==
    CASE name = "generate_report" -> "CodeRabbit Report Generated Successfully\n\n"
      [] name = "analyze_pull_request" -> "Pull Request Analysis Complete\n\n"
      [] name = "configure_review_settings" -> "CodeRabbit Configuration Generated for "
      [] name = "send_review_command" -> "CodeRabbit Command: "
      [] name = "check_health" -> "CodeRabbit Agent Health Check\n\nStatus: "
      [] name = "create_custom_report" -> "Custom CodeRabbit Report\n\n"
      [] OTHER -> "none"

\* Response r is an answer to request req
Answers(r, req) ==
    CASE req.method = "tools/list" -> r.kind = "tools"
      [] req.method = "resources/list" -> r.kind = "resources"
      [] req.method = "resources/read" ->
            \/ r.kind = "contents" /\ r.list[1].uri = req.uri
            \/ r.kind = "error" /\ r.text = <<"Unknown resource: ", req.uri>>
      [] req.method = "tools/call" ->
            /\ r.kind = "content"
            /\ IF r.isError
               THEN r.text[2] = req.name
               ELSE r.text[1] = HeadOf(req.name)
      [] OTHER -> FALSE

ListedUris == {ResourceCatalog[i].uri : i \in DOMAIN ResourceCatalog}

\* Line id is a request that fails: undecodable, an unknown tool or resource,
\* or a call whose handler function threw
FailedRequest(id) ==
    \/ received[id].method = "garbage"
    \/ UnknownToolCall(id)
    \/ received[id].method = "resources/read" /\ received[id].uri \notin ListedUris
    \/ id \in raised

\* The response that reports the failure of line id
FailureReported(id) ==
    IF received[id].method = "garbage"
    THEN \E i \in DOMAIN responses :
            responses[i].id = 0 /\ ErrorShaped(responses[i])
    ELSE /\ ResponsesTo(id) # {}
         /\ \A i \in ResponsesTo(id) : ErrorShaped(responses[i])

\* C6: a failing request never takes the transport loop down: its failure is
\* reported by an error-shaped response, the loop keeps running until the
\* client closes the stream, and the next line can be read and answered.
C6_FailureIsLocal ==
    /\ loop \in {"running", "closed"}
    /\ \A id \in Ids :
          FailedRequest(id)
            => /\ FailureReported(id)
               /\ phase[id] = "done"
               /\ thread # id
               /\ (loop = "running" /\ Len(received) < MaxLines)
                     => ENABLED ListToolsRequest /\ ENABLED ReadResourceRequest
                        /\ ENABLED CallToolRequest

\* C6 witness: a call whose handler threw was answered with an error, and the
\* request received after it was answered with a success
C6_Witness ==
    /\ Len(received) = 2
    /\ 1 \in raised
    /\ FailureReported(1)
    /\ \E i \in ResponsesTo(2) : SuccessShaped(responses[i])

\* C7: every generate_report call and every check_health call that is
\* suspended on its network request is eventually answered, whatever the
\* remote endpoint does.
C7_NetworkCallsComplete ==
    \A id \in 1..MaxLines :
        (id \in Ids /\ phase[id] = "awaiting") ~> (id \in Ids /\ phase[id] = "done")

\* C8: a call suspended on the network holds no thread, so that the next
\* line can be read and answered while it is pending.
C8_SuspendedCallDoesNotBlock ==
    (\E id \in Ids : phase[id] = "awaiting")
        => /\ thread = 0
           /\ (loop = "running" /\ Len(received) < MaxLines)
                 => ENABLED ListToolsRequest /\ ENABLED ListResourcesRequest
                    /\ ENABLED CallToolRequest

\* C8 witness: the second request is answered while the first is pending
C8_Witness ==
    /\ Len(received) = 2
    /\ phase[1] = "awaiting"
    /\ received[1].name = "check_health"
    /\ received[2].method = "tools/list"
    /\ ResponsesTo(1) = {}
    /\ ResponsesTo(2) # {}

\* Names of a tool list, in order
NamesOf(list) == [i \in DOMAIN list |-> list[i].name]

\* Fields a tool's schema marks required
RequiredOf(list, name) ==
    LET t == CHOOSE x \in {list[i] : i \in DOMAIN list} : x.name = name
    IN {t.required[k] : k \in DOMAIN t.required}

\* C9: every tools/list response names the same six tools in the same order,
\* and each schema marks required exactly the fields of the tool catalog.
C9_ToolListFixed ==
    \A i \in DOMAIN responses :
        responses[i].kind = "tools"
          => /\ NamesOf(responses[i].list) =
                  <<"generate_report", "analyze_pull_request",
                    "configure_review_settings", "send_review_command",
                    "check_health", "create_custom_report">>
             /\ RequiredOf(responses[i].list, "generate_report") = {"from", "to"}
             /\ RequiredOf(responses[i].list, "analyze_pull_request")
                  = {"repository", "pullRequestNumber"}
             /\ RequiredOf(responses[i].list, "configure_review_settings")
                  = {"repository", "configuration"}
             /\ RequiredOf(responses[i].list, "send_review_command") = {"command"}
             /\ RequiredOf(responses[i].list, "check_health") = {}
             /\ RequiredOf(responses[i].list, "create_custom_report")
                  = {"template", "dateRange"}

\* C9 witness: the tools are listed after an earlier call was handled
C9_Witness ==
    /\ Len(received) = 2
    /\ IsCall(1)
    /\ \E i \in ResponsesTo(2) : responses[i].kind = "tools"

\* C10: every resources/list response carries the same four uris.
C10_ResourceListFixed ==
    \A i \in DOMAIN responses :
        responses[i].kind = "resources"
          => [k \in DOMAIN responses[i].list |-> responses[i].list[k].uri] =
                <<"coderabbit://config/sample", "coderabbit://commands/help",
                  "coderabbit://tools/astgrep", "coderabbit://env/template">>

\* C10 witness: the resources are listed after a read of an unlisted uri
C10_Witness ==
    /\ Len(received) = 2
    /\ received[1].method = "resources/read"
    /\ received[1].uri \notin ListedUris
    /\ \E i \in ResponsesTo(2) : responses[i].kind = "resources"


IsRead(id) == received[id].method = "resources/read"

\* The entry of the listed resources with the given uri
ListedResource(uri) ==
    CHOOSE x \in {ListResources.resources[k] : k \in DOMAIN ListResources.resources} :
        x.uri = uri

\* The fixed text served for each uri
StaticContent(uri) ==
    CASE uri = "coderabbit://config/sample" -> "# .coderabbit.yaml - Sample Configuration"
      [] uri = "coderabbit://commands/help" -> "# CodeRabbit Commands Reference"
      [] uri = "coderabbit://tools/astgrep" -> "# AST-Grep Rules Examples"
      [] uri = "coderabbit://env/template" ->
            "# CodeRabbit Self-Hosted Environment Configuration"

\* C11: a read of an unlisted uri is answered by an error that reports the
\* unknown resource; a read of a listed uri is answered by one content item
\* with that uri, its static text, and the mimeType the list declares for it.
C11_ReadResourceByUri ==
    \A id \in Ids :
        IsRead(id)
          => /\ ResponsesTo(id) # {}
             /\ \A i \in ResponsesTo(id) :
                   IF received[id].uri \in ListedUris
                   THEN /\ ~responses[i].isError
                        /\ responses[i].kind = "contents"
                        /\ Len(responses[i].list) = 1
                        /\ responses[i].list[1].uri = received[id].uri
                        /\ responses[i].list[1].text = StaticContent(received[id].uri)
                        /\ responses[i].list[1].mimeType
                              = ListedResource(received[id].uri).mimeType
                   ELSE /\ responses[i].isError
                        /\ responses[i].kind = "error"
                        /\ responses[i].text = <<"Unknown resource: ", received[id].uri>>

\* C11 witness: an unlisted uri was refused and the astgrep examples were read
C11_Witness ==
    /\ Len(received) = 2
    /\ IsRead(1) /\ received[1].uri = "coderabbit://secrets/key"
    /\ IsRead(2) /\ received[2].uri = "coderabbit://tools/astgrep"
    /\ \E i \in ResponsesTo(2) : responses[i].kind = "contents"


\* A response without its id
Payload(r) == [isError |-> r.isError, kind |-> r.kind, text |-> r.text, list |-> r.list]

\* C12: any two resources/list responses of a run are identical, and any two
\* reads of the same uri are answered with identical content, whatever was
\* requested before or in between.
C12_ResourceAccessIdempotent ==
    /\ \A i, j \in DOMAIN responses :
          (responses[i].kind = "resources" /\ responses[j].kind = "resources")
            => responses[i].list = responses[j].list
    /\ \A a, b \in Ids :
          (IsRead(a) /\ IsRead(b) /\ received[a].uri = received[b].uri)
            => \A i \in ResponsesTo(a), j \in ResponsesTo(b) :
                  Payload(responses[i]) = Payload(responses[j])

\* C12 witness: the same listed uri was read twice, and both reads answered
C12_Witness ==
    /\ Len(received) = 2
    /\ IsRead(1) /\ IsRead(2)
    /\ received[1].uri = received[2].uri
    /\ received[1].uri \in ListedUris
    /\ ResponsesTo(1) # {} /\ ResponsesTo(2) # {}


IsCommandCall(id) == IsCall(id) /\ received[id].name = "send_review_command"

EnumValues == {CommandEnum[k] : k \in DOMAIN CommandEnum}

\* C13: a send_review_command call whose command is not one of the five
\* declared values is answered with an error and sendReviewCommand is not
\* entered.
C13_InvalidCommandRejected ==
    \A id \in Ids :
        (/\ IsCommandCall(id)
         /\ "command" \in DOMAIN received[id].args
         /\ received[id].args["command"].v \notin EnumValues)
            => /\ ~HandlerEntered(id)
               /\ \A i \in ResponsesTo(id) : responses[i].isError


IsHealthCall(id) == IsCall(id) /\ received[id].name = "check_health"

\* Positions in upstream of the network requests issued by call id
ProbesOf(id) == {k \in DOMAIN upstream : upstream[k].by = id}

\* C14: a check_health call whose probe failed (no connection, or the timeout)
\* is answered with a result that carries no error flag and reports the
\* unhealthy status, the probed URL and the failure reason; whatever the
\* outcome of the probe, the handler does not throw.
C14_UnreachableIsUnhealthyResult ==
    \A id \in Ids :
        IsHealthCall(id)
          => \A k \in ProbesOf(id) :
                /\ id \notin raised
                /\ upstream[k].reply \in {"error", "timeout"}
                     => /\ ResponsesTo(id) # {}
                        /\ \A i \in ResponsesTo(id) :
                              /\ ~responses[i].isError
                              /\ responses[i].kind = "content"
                              /\ SubSeq(responses[i].text, 1, 5) =
                                    <<"CodeRabbit Agent Health Check\n\nStatus: ",
                                      "Unhealthy", "\nURL: ", upstream[k].url[1],
                                      "\nError: ">>
                              /\ responses[i].text[6] =
                                    IF upstream[k].reply = "timeout"
                                    THEN "timeout of 5000ms exceeded"
                                    ELSE "connect ECONNREFUSED"

\* C14 witness: the probe of a given address failed and the call was answered
C14_Witness ==
    \E id \in Ids :
        /\ IsHealthCall(id)
        /\ "agentUrl" \in DOMAIN received[id].args
        /\ \E k \in ProbesOf(id) :
              upstream[k].reply = "error" /\ upstream[k].url[1] = "http://10.0.0.1:9"
        /\ ResponsesTo(id) # {}


\* C15: every check_health call that supplies no agentUrl, with an empty
\* arguments object or with none at all, probes the default address and is
\* never answered with an error response.
C15_AgentUrlOptional ==
    \A id \in Ids :
        (IsHealthCall(id) /\ "agentUrl" \notin DOMAIN received[id].args)
          => /\ \E k \in ProbesOf(id) :
                   upstream[k].url = <<"http://127.0.0.1:8080", "/health">>
             /\ \A i \in ResponsesTo(id) : ~responses[i].isError


CommandOf(id) == Get(received[id].args, "command").v
ContextOf(id) == Get(received[id].args, "context")

\* C16: every "generate docstrings" call is answered with the fixed directive
\* "@coderabbitai generate docstrings", and two such calls that differ only in
\* their context are answered with the same text.
C16_DocstringsDirectiveFixed ==
    /\ \A id \in Ids :
          (IsCommandCall(id) /\ CommandOf(id) = "generate docstrings")
            => /\ ResponsesTo(id) # {}
               /\ \A i \in ResponsesTo(id) :
                     /\ ~responses[i].isError
                     /\ SubSeq(responses[i].text, 1, 3) =
                           <<"CodeRabbit Command: ",
                             "@coderabbitai generate docstrings",
                             "\n\nThis command can be posted as a comment in your pull request to interact with CodeRabbit.">>
    /\ \A a, b \in Ids :
          (/\ IsCommandCall(a) /\ IsCommandCall(b)
           /\ CommandOf(a) = "generate docstrings" /\ CommandOf(b) = "generate docstrings"
           /\ Get(received[a].args, "targetFiles") = Get(received[b].args, "targetFiles"))
            => \A i \in ResponsesTo(a), j \in ResponsesTo(b) :
                  responses[i].text = responses[j].text

\* C16 witness: two docstrings calls, one with a context and one without
C16_Witness ==
    /\ Len(responses) = 2
    /\ IsCommandCall(1) /\ IsCommandCall(2)
    /\ CommandOf(1) = "generate docstrings" /\ CommandOf(2) = "generate docstrings"
    /\ ContextOf(1) = Str("Focus on public API functions")
    /\ ContextOf(2) = Undefined

\* The literal part of the two templates that take the context
TemplatePrefix(command) ==
    IF command = "remember rule" THEN "@coderabbitai always remember " ELSE "@coderabbitai "

\* C17: a "remember rule" or "provide context" call with a non-empty context
\* is answered with the directive made of the template's literal part
\* followed by that context.
C17_ContextSubstituted ==
    \A id \in Ids :
        (/\ IsCommandCall(id)
         /\ CommandOf(id) \in {"remember rule", "provide context"}
         /\ ContextOf(id).t = "string" /\ ContextOf(id).v # "")
          => /\ ResponsesTo(id) # {}
             /\ \A i \in ResponsesTo(id) :
                   /\ ~responses[i].isError
                   /\ SubSeq(responses[i].text, 1, 3) =
                         <<"CodeRabbit Command: ", TemplatePrefix(CommandOf(id)),
                           ContextOf(id).v>>

\* C17 witness: "remember rule" with the context "enforce camelCase" answered
C17_Witness ==
    \E id \in Ids :
        /\ IsCommandCall(id)
        /\ CommandOf(id) = "remember rule"
        /\ ContextOf(id) = Str("enforce camelCase")
        /\ \E i \in ResponsesTo(id) : responses[i].text[3] = "enforce camelCase"


\* The handlers that ran for request id
HandlersOf(id) == {e.handler : e \in {x \in invoked : x.id = id}}

\* How the network answered the upstream requests of request id
ReplyOf(id) == {upstream[k].reply : k \in ProbesOf(id)}

\* Request b is request a with members added that the tool's schema does not declare
AddsUndeclared(a, b) ==
    /\ IsCall(a) /\ IsCall(b)
    /\ received[a].hasArgs /\ received[b].hasArgs
    /\ received[a].name = received[b].name
    /\ received[a].name \in RegisteredNames
    /\ DOMAIN received[a].args \subseteq DOMAIN received[b].args
    /\ DOMAIN received[a].args # DOMAIN received[b].args
    /\ \A f \in DOMAIN received[a].args : received[b].args[f] = received[a].args[f]
    /\ \A f \in DOMAIN received[b].args \ DOMAIN received[a].args :
          f \notin DOMAIN SchemaOf(received[a].name).properties

\* C18: a call that adds undeclared members to a valid call runs the same
\* handler and, the network answering alike, is an error only if the valid
\* call is one.
C18_ExtraFieldsPassThrough ==
    \A a, b \in Ids :
        (AddsUndeclared(a, b) /\ ~ViolatesSchema(received[a]))
          => /\ HandlersOf(b) = {received[a].name}
             /\ HandlersOf(a) = HandlersOf(b)
             /\ ReplyOf(a) = ReplyOf(b)
                  => \A i \in ResponsesTo(a), j \in ResponsesTo(b) :
                        responses[j].isError => responses[i].isError

\* C18 witness: a valid analyze_pull_request call and the same call with an
\* extra member, both answered without error
C18_Witness ==
    \E a, b \in Ids :
        /\ AddsUndeclared(a, b)
        /\ ~ViolatesSchema(received[a])
        /\ received[a].name = "analyze_pull_request"
        /\ \E i \in ResponsesTo(a) : ~responses[i].isError
        /\ \E j \in ResponsesTo(b) : ~responses[j].isError


\* The upstream requests made for generate_report
ReportPosts == {k \in DOMAIN upstream : upstream[k].method = "POST"}

\* C19: every generate_report upstream request goes to the base URL named by
\* CODERABBIT_BASE_URL when that variable is set, and to
\* https://api.coderabbit.ai/api/v1 when it is not.
C19_BaseUrlFromEnvironment ==
    \A k \in ReportPosts :
        upstream[k].url[1] = IF baseUrlEnv # ""
                             THEN baseUrlEnv
                             ELSE "https://api.coderabbit.ai/api/v1"


\* What the clock read for request id, and what the network answered it
ClockOf(id) == {e.at : e \in {x \in invoked : x.id = id}}
AnswerOf(id) == {upstream[k].answer : k \in ProbesOf(id)}

\* Requests a and b are the same request under the same environment
SameRequest(a, b) ==
    /\ received[a] = received[b]
    /\ ClockOf(a) = ClockOf(b)
    /\ AnswerOf(a) = AnswerOf(b)

RequestsAnsweredAlike ==
    \A a, b \in Ids :
        SameRequest(a, b)
          => \A i \in ResponsesTo(a), j \in ResponsesTo(b) :
                Payload(responses[i]) = Payload(responses[j])

\* C20: whatever was requested before or is still in flight, two requests
\* with the same content, the same clock reading and the same network answer
\* get the same result (tool list, resource list, resource contents and tool
\* results alike), and no step changes the configuration fixed at startup.
C20_RequestsIndependent ==
    /\ []RequestsAnsweredAlike
    /\ [][apiKey' = apiKey /\ baseUrlEnv' = baseUrlEnv]_vars

\* C20 witness: the same create_custom_report call made twice with the same
\* clock reading, the second after the first was answered, both successful
C20_Witness ==
    /\ Len(responses) = 2
    /\ SameRequest(1, 2)
    /\ received[1].name = "create_custom_report"
    /\ ~responses[1].isError /\ ~responses[2].isError


IsSyntheticCall(id) ==
    IsCall(id) /\ received[id].name \in {"analyze_pull_request", "create_custom_report"}

\* C21: two analyze_pull_request or create_custom_report calls with the same
\* arguments get the same payload, whenever each of them is made.
C21_SyntheticPayloadDeterministic ==
    \A a, b \in Ids :
        (IsSyntheticCall(a) /\ received[a] = received[b])
          => \A i \in ResponsesTo(a), j \in ResponsesTo(b) :
                Payload(responses[i]) = Payload(responses[j])


IsReportCall(id) == IsCall(id) /\ received[id].name = "generate_report"

\* C22: with no API key configured, every generate_report call is answered
\* at once by an error response saying the key is not configured, and no
\* upstream request is made for it.
C22_NoKeyNoUpstream ==
    apiKey = ""
      => \A id \in Ids :
            IsReportCall(id)
              => /\ ProbesOf(id) = {}
                 /\ ResponsesTo(id) # {}
                 /\ \A i \in ResponsesTo(id) :
                       /\ responses[i].isError
                       /\ responses[i].text =
                             <<"Error executing ", "generate_report", ": ",
                               "CodeRabbit API key not configured. Set CODERABBIT_API_KEY environment variable.">>

\* C22 witness: a valid generate_report call answered while no key is configured
C22_Witness ==
    /\ apiKey = ""
    /\ \E id \in Ids :
          /\ IsReportCall(id)
          /\ ~ViolatesSchema(received[id])
          /\ ResponsesTo(id) # {}

\* The responses to the generate_report calls whose upstream request failed
UpstreamFailures ==
    {i \in DOMAIN responses :
        \E k \in ReportPosts :
            upstream[k].by = responses[i].id /\ upstream[k].reply \in {"error", "timeout"}}

\* C23: every response to a generate_report call whose upstream request
\* failed is an error response that carries the upstream status code and a
\* message.
C23_UpstreamErrorCarriesStatus ==
    \A i \in UpstreamFailures :
        /\ responses[i].isError
        /\ Len(responses[i].text) = 7
        /\ responses[i].text[5] \notin {"", "undefined"}
        /\ responses[i].text[7] # ""


\* The generate_report calls that get as far as the upstream request
ReportCallsSent == {id \in Ids : IsReportCall(id) /\ received[id].hasArgs /\ apiKey # ""}

\* C24: a generate_report call never has more than one upstream request, and
\* with a key configured every call has exactly one, whatever became of the
\* requests of earlier calls.
C24_OneUpstreamPerReport ==
    /\ \A id \in Ids : IsReportCall(id) => Cardinality(ProbesOf(id)) <= 1
    /\ \A id \in ReportCallsSent : Cardinality(ProbesOf(id)) = 1
    /\ Cardinality(ReportPosts) = Cardinality(ReportCallsSent)

\* C24 witness: two generate_report calls for the same dates, the first
\* answered by the upstream, the second sent all the same
C24_Witness ==
    /\ Cardinality(ReportCallsSent) = 2
    /\ received[1] = received[2]
    /\ \E k \in ProbesOf(1) : upstream[k].reply \in {"ok", "error"}
    /\ ProbesOf(2) # {}


IsConfigureCall(id) == IsCall(id) /\ received[id].name = "configure_review_settings"

\* The configuration a configure_review_settings call carries
ConfigOf(id) == ConfigObject(Get(received[id].args, "configuration"))

AstGrepOf(config) ==
    IF "tools" \in DOMAIN config /\ "astGrep" \in DOMAIN config.tools
    THEN config.tools.astGrep
    ELSE EmptyObject

\* The pieces of a text, and those that follow a given piece, in order
Pieces(text) == {text[i] : i \in DOMAIN text}

RECURSIVE PiecesAfter(_, _)
PiecesAfter(text, marker) ==
    IF Len(text) < 2 THEN <<>>
    ELSE (IF Head(text) = marker THEN <<text[2]>> ELSE <<>>)
         \o PiecesAfter(Tail(text), marker)

ListOr(record, field) == IF field \in DOMAIN record THEN record[field] ELSE <<>>

\* C25: the document generated for a configuration lists the paths of its
\* pathInstructions once each in input order, has one section for each
\* astGrep list given and none for a list not given, lists their elements in
\* input order, and states essentialRules whenever it is given, true or false.
C25_YamlReflectsInput ==
    \A id \in Ids :
        IsConfigureCall(id)
          => \A i \in ResponsesTo(id) :
                LET text == responses[i].text
                    config == ConfigOf(id)
                    ast == AstGrepOf(config)
                IN
                /\ ~responses[i].isError
                /\ PiecesAfter(text, "    - path: \"") =
                      [k \in DOMAIN ListOr(config, "pathInstructions") |->
                          config.pathInstructions[k].path]
                /\ PiecesAfter(text, "        - \"") =
                      ListOr(ast, "ruleDirs") \o ListOr(ast, "utilDirs")
                        \o ListOr(ast, "packages")
                /\ ("      rule_dirs:\n" \in Pieces(text)) = ("ruleDirs" \in DOMAIN ast)
                /\ ("      util_dirs:\n" \in Pieces(text)) = ("utilDirs" \in DOMAIN ast)
                /\ ("      packages:\n" \in Pieces(text)) = ("packages" \in DOMAIN ast)
                /\ ("      essential_rules: true\n" \in Pieces(text))
                      = ("essentialRules" \in DOMAIN ast /\ ast.essentialRules)
                /\ ("      essential_rules: false\n" \in Pieces(text))
                      = ("essentialRules" \in DOMAIN ast /\ ~ast.essentialRules)


\* The string a sequence of pieces spells
RECURSIVE Joined(_)
Joined(pieces) == IF pieces = <<>> THEN "" ELSE Head(pieces) \o Joined(Tail(pieces))

\* C26: the directive returned for "remember rule" reads
\* "@coderabbitai always remember to " followed by the context supplied, or
\* by "follow best practices" when none is supplied.
C26_RememberRuleDocumentedForm ==
    \A id \in Ids :
        (IsCommandCall(id) /\ CommandOf(id) = "remember rule")
          => \A i \in ResponsesTo(id) :
                Joined(SubSeq(responses[i].text, 2, 3)) =
                    "@coderabbitai always remember to "
                      \o (IF Truthy(ContextOf(id)) THEN ContextOf(id).v
                          ELSE "follow best practices")


\* Every tool name and every uri a client sends or the server lists
NamesSeen == RegisteredNames \cup {line.name : line \in CallLines}
UrisSeen == ListedUris \cup {line.uri : line \in ReadLines}

\* C27: the switch of call-tool has a case for a name exactly when list-tools
\* lists it, and read-resource serves a uri exactly when list-resources lists
\* it; so a call enters a handler, and a read is served, exactly for the
\* listed items.
C27_ListedIsServed ==
    /\ \A name \in NamesSeen :
          (SwitchCase(name) # "default") = (name \in RegisteredNames)
    /\ \A uri \in UrisSeen :
          (ReadResource(uri).kind # "throw") = (uri \in ListedUris)
    /\ \A id \in Ids :
          /\ (IsCall(id) /\ phase[id] = "done")
                => (HandlerEntered(id) = (received[id].name \in RegisteredNames))
          /\ IsRead(id)
                => \A i \in ResponsesTo(id) :
                      responses[i].isError = (received[id].uri \notin ListedUris)

\* C27 witness: the listed tool check_health was called and its handler ran,
\* and a read of an unlisted uri was refused
C27_Witness ==
    /\ \E id \in Ids :
          IsCall(id) /\ received[id].name = "check_health" /\ HandlerEntered(id)
    /\ \E id \in Ids :
          /\ IsRead(id) /\ received[id].uri \notin ListedUris
          /\ \E i \in ResponsesTo(id) : responses[i].isError


\* The literal text each of the five directives begins with
CanonicalHeads ==
    {"@coderabbitai generate docstrings",
     "@coderabbitai Why do all of these functions need docstrings? Isn't it obvious enough what they do?",
     "@coderabbitai always remember ",
     "@coderabbitai ",
     "@coderabbitai Please clarify this suggestion"}

\* C28: the values of the command enum are the keys of the directive
\* mapping, and a call whose command is one of them is answered with one of
\* the five directives.
C28_EnumMatchesMapping ==
    /\ Len(CommandEnum) = 5
    /\ EnumValues = CommandKeys
    /\ \A id \in Ids :
          (IsCommandCall(id) /\ CommandOf(id) \in EnumValues)
            => /\ ResponsesTo(id) # {}
               /\ \A i \in ResponsesTo(id) :
                     /\ ~responses[i].isError
                     /\ responses[i].text[2] \in CanonicalHeads

\* C28 witness: "clarify suggestion" and "explain reasoning" were both answered
C28_Witness ==
    /\ Len(responses) = 2
    /\ IsCommandCall(1) /\ CommandOf(1) = "clarify suggestion"
    /\ IsCommandCall(2) /\ CommandOf(2) = "explain reasoning"
    /\ responses[2].text[2] \in CanonicalHeads


\* C29: every send_review_command response that is not flagged as an error
\* carries one of the five directives beginning with "@coderabbitai",
\* whatever command string the caller sent.
C29_NoUndefinedDirective ==
    \A id \in Ids :
        IsCommandCall(id)
          => \A i \in ResponsesTo(id) :
                ~responses[i].isError
                  => /\ Len(responses[i].text) >= 3
                     /\ responses[i].text[2] \in CanonicalHeads


\* C30: in every generated document the "tools:" section comes after a
\* "reviews:" key, under which its indentation nests it.
C30_ToolsUnderReviews ==
    \A id \in Ids :
        IsConfigureCall(id)
          => \A i \in ResponsesTo(id) :
                LET text == responses[i].text IN
                \A t \in DOMAIN text :
                    text[t] = "\n  tools:\n    ast-grep:\n"
                      => \E r \in 1..(t - 1) :
                            text[r] = "reviews:\n  path_instructions:\n"

====
